---- MODULE Spec2Model ----
(***************************************************************************)
(* A model of src/lib.rs: the JSON-RPC transport function send_rpc and the *)
(* gas estimation function estimate_gas built on it.                       *)
(*                                                                         *)
(* Text (Rust str/String) is a sequence of one-character strings, so that  *)
(* prefix stripping, hex encoding, number formatting and parsing are       *)
(* computed character by character as the code computes them.              *)
(***************************************************************************)
EXTENDS Integers, Sequences, FiniteSets, TLC

VARIABLES pc, entry, tx, rpc_url, args, request, posts, status, body, outcome

vars == <<pc, entry, tx, rpc_url, args, request, posts, status, body, outcome>>

(***************************************************************************)
(* Bounds of the model.                                                    *)
(***************************************************************************)
\* longest tx.data byte sequence explored
MaxDataLen == 2
\* longest params sequence handed to send_rpc by a direct caller
MaxParams == 2

(***************************************************************************)
(* Option<T>                                                               *)
(***************************************************************************)
None == [tag |-> "None"]
Some(x) == [tag |-> "Some", val |-> x]
IsSome(o) == o.tag = "Some"

(***************************************************************************)
(* Characters.                                                             *)
(***************************************************************************)
LowerAlnum ==
  << "0", "1", "2", "3", "4", "5", "6", "7", "8", "9",
     "a", "b", "c", "d", "e", "f", "g", "h", "i", "j", "k", "l", "m",
     "n", "o", "p", "q", "r", "s", "t", "u", "v", "w", "x", "y", "z" >>

UpperAlpha ==
  << "A", "B", "C", "D", "E", "F", "G", "H", "I", "J", "K", "L", "M",
     "N", "O", "P", "Q", "R", "S", "T", "U", "V", "W", "X", "Y", "Z" >>

\* index of c in table, 0 when absent
IndexOf(table, c) ==
  IF \E i \in 1..Len(table) : table[i] = c
    THEN CHOOSE i \in 1..Len(table) : table[i] = c
    ELSE 0

(***************************************************************************)
(* hex::encode: two lowercase hex characters per byte, in order.           *)
(***************************************************************************)
RECURSIVE HexEncodeUpperNibbleDropped(_)
HexEncodeUpperNibbleDropped(bytes) ==
  IF bytes = <<>> THEN <<>>
  ELSE (IF bytes[1] < 16
          THEN << LowerAlnum[bytes[1] + 1] >>
          ELSE << LowerAlnum[(bytes[1] \div 16) + 1], LowerAlnum[(bytes[1] % 16) + 1] >>)
       \o HexEncodeUpperNibbleDropped(Tail(bytes))

RECURSIVE HexEncode(_)
HexEncode(bytes) ==
  IF bytes = <<>> THEN <<>>
  ELSE << LowerAlnum[(bytes[1] \div 16) + 1], LowerAlnum[(bytes[1] % 16) + 1] >>
       \o HexEncode(Tail(bytes))

(***************************************************************************)
(* Display of an i64: decimal digits, a leading "-" when negative.         *)
(***************************************************************************)
RECURSIVE NatToDec(_)
NatToDec(n) ==
  IF n < 10 THEN << LowerAlnum[n + 1] >>
  ELSE NatToDec(n \div 10) \o << LowerAlnum[(n % 10) + 1] >>

IntToDec(n) == IF n < 0 THEN << "-" >> \o NatToDec(-n) ELSE NatToDec(n)

(***************************************************************************)
(* U256: Serialize to JSON (a "0x" string of minimal lowercase hex) and    *)
(* from_str_radix.                                                         *)
(***************************************************************************)
U256Bits == 256

RECURSIVE NatToHex(_)
NatToHex(n) ==
  IF n < 16 THEN << LowerAlnum[n + 1] >>
  ELSE NatToHex(n \div 16) \o << LowerAlnum[(n % 16) + 1] >>

U256Serialize(v) == << "0", "x" >> \o NatToHex(v)

\* the digit value of c in a radix up to 36 (case insensitive), -1 when c is
\* no digit character
Base36Digit(c) ==
  IF IndexOf(LowerAlnum, c) > 0 THEN IndexOf(LowerAlnum, c) - 1
  ELSE IF IndexOf(UpperAlpha, c) > 0 THEN IndexOf(UpperAlpha, c) + 9
  ELSE -1

RECURSIVE StripLeadingZeros(_)
StripLeadingZeros(digits) ==
  IF digits # <<>> /\ digits[1] = 0 THEN StripLeadingZeros(Tail(digits)) ELSE digits

RECURSIVE DigitsValue(_, _, _)
DigitsValue(radix, digits, acc) ==
  IF digits = <<>> THEN acc
  ELSE DigitsValue(radix, Tail(digits), acc * radix + digits[1])

\* from_base_be for radix 16: a value of more than U256Bits bits overflows
Overflows(digits) == Len(StripLeadingZeros(digits)) * 4 > U256Bits

FromStrRadix16(src) ==
  LET isBad(c) == c # "_" /\ (Base36Digit(c) < 0 \/ Base36Digit(c) >= 16)
      bad      == {i \in 1..Len(src) : isBad(src[i])}
      upto     == IF bad = {} THEN Len(src)
                  ELSE (CHOOSE i \in bad : \A j \in bad : i <= j) - 1
      kept     == SelectSeq(SubSeq(src, 1, upto), LAMBDA c : c # "_")
      digits   == [i \in 1..Len(kept) |-> Base36Digit(kept[i])]
  IN  IF Overflows(digits)
        THEN [ok |-> FALSE, err |-> [type |-> "ruint::ParseError", kind |-> "Overflow"]]
      ELSE IF bad # {}
        THEN [ok |-> FALSE, err |-> [type |-> "ruint::ParseError", kind |-> "InvalidDigit"]]
      ELSE [ok |-> TRUE, value |-> DigitsValue(16, StripLeadingZeros(digits), 0)]

(***************************************************************************)
(* str::trim_start_matches: every leading repetition of pat is removed.    *)
(***************************************************************************)
StartsWith(s, pat) == Len(s) >= Len(pat) /\ SubSeq(s, 1, Len(pat)) = pat

RECURSIVE TrimStartMatches(_, _)
TrimStartMatches(s, pat) ==
  IF pat # <<>> /\ StartsWith(s, pat)
    THEN TrimStartMatches(SubSeq(s, Len(pat) + 1, Len(s)), pat)
    ELSE s

(***************************************************************************)
(* JSON values: strings, numbers, objects.                                 *)
(***************************************************************************)
JStr(chars) == [json |-> "string", chars |-> chars]
JNum(n) == [json |-> "number", n |-> n]
JObj(fields) == [json |-> "object", fields |-> fields]
JNull == [json |-> "null"]
JAbsent == [json |-> "absent"]

(***************************************************************************)
(* Inputs: transactions, endpoints, direct send_rpc calls.                 *)
(***************************************************************************)
Addresses == {"0x84d8..7bb4", "0x1111..1111"}

\* Address::to_string: the EIP-55 checksummed "0x" string of the 20 bytes; the
\* checksum hash is not computed here, the string is named by its address
AddressToString(a) == JStr([eip55 |-> a])

Bytes == {0, 10, 255}

RECURSIVE SeqsUpTo(_, _)
SeqsUpTo(S, n) ==
  IF n = 0 THEN {<<>>}
  ELSE LET shorter == SeqsUpTo(S, n - 1)
       IN  shorter \cup {Append(q, x) : q \in {r \in shorter : Len(r) = n - 1}, x \in S}

DataValues == SeqsUpTo(Bytes, MaxDataLen)

\* the transactions a caller hands to estimate_gas
Transactions ==
  [nonce : {123}, gas_price : {Some(1000)}, gas_limit : {1000000000},
   from : {"0x84d8..7bb4"}, to : Addresses, value : {0, 1}, data : DataValues,
   v : {777}, r : {987654321}, s : {121212}]

\* the transactions that agree with t on from, to, value and data
SameCallShape(t) ==
  {[nonce |-> n, gas_price |-> g, gas_limit |-> l, from |-> t.from, to |-> t.to,
    value |-> t.value, data |-> t.data, v |-> v, r |-> r, s |-> s] :
     n \in {0, 123}, g \in {None, Some(1000)}, l \in {21000, 1000000000},
     v \in {27, 777}, r \in {1, 987654321}, s \in {2, 121212}}

NoTx == [nonce |-> 0, gas_price |-> None, gas_limit |-> 0, from |-> "", to |-> "",
         value |-> 0, data |-> <<>>, v |-> 0, r |-> 0, s |-> 0]

\* endpoint strings; accepted: whether the HTTP client takes the string as a URL
\* it can post to (Client::post of a string that is no http(s) URL yields a
\* request builder holding an error, and send() returns it without any I/O)
Endpoints ==
  { [text |-> "https://mainnet.infura.io/v3/key", accepted |-> TRUE],
    [text |-> "not a url", accepted |-> FALSE] }

NoEndpoint == [text |-> "", accepted |-> FALSE]

Methods == {"eth_estimateGas", "eth_chainId"}

ParamValues == {JStr(<< "a" >>), JStr(<< "b" >>)}

ParamSeqs == SeqsUpTo(ParamValues, MaxParams)

(***************************************************************************)
(* What the node may answer.                                               *)
(***************************************************************************)
StatusCodes == {200, 500}

Is2xx(s) == 200 <= s /\ s <= 299

InsufficientFunds == << "i", "n", "s", "u", "f", "f", "i", "c", "i", "e", "n", "t", " ", "f", "u", "n", "d", "s" >>

ErrorCodes == {-32000, 3}

ErrorMessages == {InsufficientFunds, <<>>, << "3", " ", "-", " ", "x" >>}

\* 2^256 written in hex: one digit more than a U256 holds
TooWide == << "0", "x" >> \o [i \in 1..((U256Bits \div 4) + 1) |-> IF i = 1 THEN "1" ELSE "0"]

ResultStrings ==
  { << "0", "x", "5", "2", "0", "8" >>,
    << "5", "2", "0", "8" >>,
    << "0", "x", "0", "x", "5", "2", "0", "8" >>,
    << "0", "x" >>,
    << "0", "x", "0" >>,
    << "0", "x", "F", "F" >>,
    << "0", "X", "5", "2", "0", "8" >>,
    << "0", "x", "5", "2", "_", "0", "8" >>,
    << "0", "x", "5", "g" >>,
    << "n", "o", "t", "-", "a", "-", "h", "e", "x", "-", "s", "t", "r", "i", "n", "g" >>,
    <<>>, TooWide }

ResultFields == {JAbsent, JNull, JNum(21000)} \cup {JStr(s) : s \in ResultStrings}

ErrorFields ==
  {JAbsent, JNull, JStr(InsufficientFunds)}
    \cup {JObj([code |-> c, message |-> m]) : c \in ErrorCodes, m \in ErrorMessages}

Bodies ==
  {[kind |-> "not json"]}
    \cup {[kind |-> "json", result |-> r, error |-> e] : r \in ResultFields, e \in ErrorFields}

NoBody == [kind |-> "none"]

(***************************************************************************)
(* Errors (Box<dyn Error>) and results.                                    *)
(***************************************************************************)
Ok(v) == [ok |-> TRUE, value |-> v]
Err(e) == [ok |-> FALSE, err |-> e]
Pending == [ok |-> FALSE, err |-> [type |-> "pending"]]

\* a reqwest::Error, passed on by `?`
ReqwestError(kind) == [type |-> "reqwest::Error", kind |-> kind]
\* a String or &str turned into a boxed error by .into()
StringError(text) == [type |-> "String", text |-> text]

(***************************************************************************)
(* send_rpc                                                                *)
(***************************************************************************)
JsonRpcRequestParamsReversed(method, params) ==
  [jsonrpc |-> "2.0", method |-> method,
   params |-> [i \in 1..Len(params) |-> params[Len(params) + 1 - i]], id |-> 1]

JsonRpcRequest(method, params) ==
  [jsonrpc |-> "2.0", method |-> method, params |-> params, id |-> 1]

\* serde's decoding of the body as JsonRpcResponse<String>: an Option field is
\* None when absent or null
DecodeResultField(f) ==
  IF f.json \in {"absent", "null"} THEN Ok(None)
  ELSE IF f.json = "string" THEN Ok(Some(f.chars))
  ELSE Err(ReqwestError("decode"))

DecodeErrorField(f) ==
  IF f.json \in {"absent", "null"} THEN Ok(None)
  ELSE IF f.json = "object" THEN Ok(Some(f.fields))
  ELSE Err(ReqwestError("decode"))

JsonRpcResponse(b) ==
  IF b.kind # "json" THEN Err(ReqwestError("decode"))
  ELSE IF ~DecodeResultField(b.result).ok THEN DecodeResultField(b.result)
  ELSE IF ~DecodeErrorField(b.error).ok THEN DecodeErrorField(b.error)
  ELSE Ok([result |-> DecodeResultField(b.result).value,
           error |-> DecodeErrorField(b.error).value])

RpcErrorPrefix == << "R", "P", "C", " ", "E", "r", "r", "o", "r", ":", " " >>

UnknownRpcError == << "U", "n", "k", "n", "o", "w", "n", " ", "R", "P", "C", " ", "E", "r", "r", "o", "r" >>

RpcErrorTextWithoutCode(code, message) == RpcErrorPrefix \o message

\* format!("RPC Error: {} - {}", error.code, error.message)
RpcErrorText(code, message) ==
  RpcErrorPrefix \o IntToDec(code) \o << " ", "-", " " >> \o message

ResolveErrorFirst(response) ==
  IF IsSome(response.error)
    THEN Err(StringError(RpcErrorText(response.error.val.code, response.error.val.message)))
  ELSE IF IsSome(response.result) THEN Ok(response.result.val)
  ELSE Err(StringError(UnknownRpcError))

ResolveEmptyAsDefaultError(response) ==
  IF IsSome(response.result) THEN Ok(response.result.val)
  ELSE IF IsSome(response.error)
    THEN Err(StringError(RpcErrorText(response.error.val.code, response.error.val.message)))
  ELSE Err(StringError(RpcErrorText(0, <<>>)))

\* the resolution of a decoded envelope
Resolve(response) ==
  IF IsSome(response.result) THEN Ok(response.result.val)
  ELSE IF IsSome(response.error)
    THEN Err(StringError(RpcErrorText(response.error.val.code, response.error.val.message)))
  ELSE Err(StringError(UnknownRpcError))

\* what send_rpc returns once the body b has been read
SendRpcReturn(b) ==
  IF ~JsonRpcResponse(b).ok THEN JsonRpcResponse(b)
  ELSE Resolve(JsonRpcResponse(b).value)

(***************************************************************************)
(* estimate_gas                                                            *)
(***************************************************************************)
HexPrefix == << "0", "x" >>

EstimateGasParamsWithNonce(t) ==
  JObj([from |-> AddressToString(t.from), to |-> AddressToString(t.to),
        value |-> JStr(U256Serialize(t.value)),
        data |-> JStr(HexPrefix \o HexEncode(t.data)),
        nonce |-> JStr(U256Serialize(t.nonce))])

EstimateGasParams(t) ==
  JObj([from |-> AddressToString(t.from), to |-> AddressToString(t.to),
        value |-> JStr(U256Serialize(t.value)),
        data |-> JStr(HexPrefix \o HexEncode(t.data))])

\* what estimate_gas makes of send_rpc's result
EstimateGasReturn(sent) ==
  IF ~sent.ok THEN sent
  ELSE FromStrRadix16(TrimStartMatches(sent.value, HexPrefix))

\* what the call in progress returns for send_rpc's result
CallReturn(e, sent) == IF e = "estimate_gas" THEN EstimateGasReturn(sent) ELSE sent

(***************************************************************************)
(* The state machine.  A call runs to its first suspension (send().await), *)
(* resumes when the response head or a failure arrives, suspends again on  *)
(* the body (json().await) and then runs to its return.                    *)
(***************************************************************************)
\* the arguments method and params of the send_rpc call in progress
NoArgs == [method |-> "", params |-> <<>>]

Init ==
  /\ pc = "idle"
  /\ entry = "none"
  /\ tx = NoTx
  /\ rpc_url = NoEndpoint
  /\ args = NoArgs
  /\ request = JsonRpcRequest("", <<>>)
  /\ posts = 0
  /\ status = 0
  /\ body = NoBody
  /\ outcome = Pending

\* send_rpc up to send().await
SendRpcStart(url, method, params) ==
  /\ rpc_url' = url
  /\ args' = [method |-> method, params |-> params]
  /\ request' = JsonRpcRequest(method, params)
  /\ status' = 0
  /\ body' = NoBody
  /\ IF url.accepted
       THEN /\ posts' = posts + 1
            /\ pc' = "send_await"
            /\ outcome' = Pending
       ELSE /\ posts' = posts
            /\ pc' = "done"
            /\ outcome' = Err(ReqwestError("builder"))

EstimateGasCall ==
  /\ pc = "idle"
  /\ \E t \in Transactions, url \in Endpoints :
       /\ entry' = "estimate_gas"
       /\ tx' = t
       /\ SendRpcStart(url, "eth_estimateGas", << EstimateGasParams(t) >>)

SendRpcCall ==
  /\ pc = "idle"
  /\ \E url \in Endpoints, method \in Methods, params \in ParamSeqs :
       /\ entry' = "send_rpc"
       /\ tx' = NoTx
       /\ SendRpcStart(url, method, params)

SendFailsAndRetries ==
  /\ pc = "send_await"
  /\ posts < 2
  /\ posts' = posts + 1
  /\ UNCHANGED <<pc, entry, tx, rpc_url, args, request, status, body, outcome>>

\* connection refused, timeout, TLS failure: send().await? returns the error
SendFails ==
  /\ pc = "send_await"
  /\ pc' = "done"
  /\ outcome' = Err(ReqwestError("request"))
  /\ UNCHANGED <<entry, tx, rpc_url, args, request, posts, status, body>>

\* the response head arrives; no status is an error to send()
ResponseHead ==
  /\ pc = "send_await"
  /\ \E s \in StatusCodes : status' = s
  /\ pc' = "json_await"
  /\ UNCHANGED <<entry, tx, rpc_url, args, request, posts, body, outcome>>

\* the body cannot be read: json().await? returns the error
BodyFails ==
  /\ pc = "json_await"
  /\ pc' = "done"
  /\ outcome' = Err(ReqwestError("body"))
  /\ UNCHANGED <<entry, tx, rpc_url, args, request, posts, status, body>>

\* the body is read: decoding, resolution and (estimate_gas) parsing
BodyArrives ==
  /\ pc = "json_await"
  /\ \E b \in Bodies :
       /\ body' = b
       /\ outcome' = CallReturn(entry, SendRpcReturn(b))
  /\ pc' = "done"
  /\ UNCHANGED <<entry, tx, rpc_url, args, request, posts, status>>

\* the caller takes the result; the next call starts afresh
Return ==
  /\ pc = "done"
  /\ pc' = "idle"
  /\ entry' = "none"
  /\ tx' = NoTx
  /\ rpc_url' = NoEndpoint
  /\ args' = NoArgs
  /\ request' = JsonRpcRequest("", <<>>)
  /\ posts' = 0
  /\ status' = 0
  /\ body' = NoBody
  /\ outcome' = Pending

Next ==
  \/ EstimateGasCall
  \/ SendRpcCall
  \/ SendFails
  \/ ResponseHead
  \/ BodyFails
  \/ BodyArrives
  \/ Return

Spec == Init /\ [][Next]_vars

(***************************************************************************)
(* Vocabulary of the properties.                                           *)
(***************************************************************************)
Done == pc = "done"

\* the body was read and decoded as an envelope
Decoded == body.kind = "json" /\ JsonRpcResponse(body).ok

Envelope == JsonRpcResponse(body).value

IsTransportFailure(o) == ~o.ok /\ o.err.type = "reqwest::Error"

IsStringFailure(o) == ~o.ok /\ o.err.type = "String"

IsParseFailure(o) == ~o.ok /\ o.err.type = "ruint::ParseError"

\* codes and messages an error text is compared against
RefCodes == ErrorCodes \cup {-3, 0, 32000}

RefMessages == ErrorMessages \cup {<< "x" >>, << " ", "-", " ", "x" >>, << "U", "n", "k", "n", "o", "w", "n", " ", "R", "P", "C", " ", "E", "r", "r", "o", "r" >>}

\* the string with one leading "0x" removed
StripPrefixOnce(str) ==
  IF StartsWith(str, HexPrefix) THEN SubSeq(str, 3, Len(str)) ELSE str

\* one or more characters, each of 0-9, a-f, A-F
IsHexadecimal(str) ==
  str # <<>> /\ \A i \in 1..Len(str) : Base36Digit(str[i]) \in 0..15

\* the base-16 value of a hexadecimal string of at most seven digits
HexValue(str) == DigitsValue(16, [i \in 1..Len(str) |-> Base36Digit(str[i])], 0)

LowerHexValue(c) == IndexOf(SubSeq(LowerAlnum, 1, 16), c) - 1

(***************************************************************************)
(* C1: a decoded envelope is resolved result first, then error: a present  *)
(* result is returned as the success value; otherwise a present error      *)
(* makes the call fail with an error whose text holds the node's code and  *)
(* message and no other pair's (code -32000, "insufficient funds" gives    *)
(* "RPC Error: -32000 - insufficient funds"); estimate_gas returns that    *)
(* failure and no gas value.                                               *)
(***************************************************************************)
C1_ResultThenErrorVerbatim ==
  (Done /\ Decoded) =>
    /\ IsSome(Envelope.result) =>
         /\ entry = "send_rpc" => outcome = Ok(Envelope.result.val)
         /\ entry = "estimate_gas" => ~IsStringFailure(outcome) /\ ~IsTransportFailure(outcome)
    /\ (~IsSome(Envelope.result) /\ IsSome(Envelope.error)) =>
         LET code == Envelope.error.val.code
             message == Envelope.error.val.message
         IN  /\ IsStringFailure(outcome)
             /\ outcome.err.text
                  = RpcErrorPrefix \o IntToDec(code) \o << " ", "-", " " >> \o message
             /\ (code = -32000 /\ message = InsufficientFunds) =>
                  outcome.err.text = << "R", "P", "C", " ", "E", "r", "r", "o", "r", ":", " ", "-", "3", "2", "0", "0", "0", " ", "-", " ", "i", "n", "s", "u", "f", "f", "i", "c", "i", "e", "n", "t", " ", "f", "u", "n", "d", "s" >>
             /\ \A c \in RefCodes, m \in RefMessages :
                  RpcErrorText(c, m) = outcome.err.text => (c = code /\ m = message)

C1_Witness ==
  /\ Done
  /\ entry = "estimate_gas"
  /\ body = [kind |-> "json", result |-> JNull,
             error |-> JObj([code |-> -32000, message |-> InsufficientFunds])]
  /\ IsStringFailure(outcome)

(***************************************************************************)
(* C2: an envelope with neither result nor error makes send_rpc and        *)
(* estimate_gas fail with the "Unknown RPC Error" text, which is never a   *)
(* success and is the text of no protocol error.                           *)
(***************************************************************************)
C2_EmptyResponseIsDistinctFailure ==
  (Done /\ Decoded) =>
    /\ (~IsSome(Envelope.result) /\ ~IsSome(Envelope.error)) =>
         /\ IsStringFailure(outcome)
         /\ outcome.err.text = UnknownRpcError
         /\ \A c \in RefCodes, m \in RefMessages : RpcErrorText(c, m) # outcome.err.text
    /\ (~IsSome(Envelope.result) /\ IsSome(Envelope.error)) =>
         outcome # Err(StringError(UnknownRpcError))

C2_Witness ==
  /\ Done
  /\ entry = "estimate_gas"
  /\ body = [kind |-> "json", result |-> JNull, error |-> JNull]
  /\ outcome = Err(StringError(UnknownRpcError))

(***************************************************************************)
(* C3: every HTTP-level failure of the round trip (an endpoint the client  *)
(* rejects, a failed send, a non-2xx status, an unreadable body, a body    *)
(* that is no JSON or does not have the envelope's shape) ends the call    *)
(* with a transport failure.                                               *)
(***************************************************************************)
C3_HttpFailureIsTransportFailure ==
  Done =>
    ((\/ ~rpc_url.accepted
      \/ status = 0
      \/ ~Is2xx(status)
      \/ body = NoBody
      \/ ~Decoded)
     => IsTransportFailure(outcome))

(***************************************************************************)
(* C4: when the result string of a 2xx response, with its "0x" prefix      *)
(* removed, is no hexadecimal number, estimate_gas fails with a parse      *)
(* failure and returns no value.                                           *)
(***************************************************************************)
C4_NotHexIsParseFailure ==
  (Done /\ entry = "estimate_gas" /\ Is2xx(status) /\ Decoded /\ IsSome(Envelope.result)) =>
    (~IsHexadecimal(StripPrefixOnce(Envelope.result.val)) => IsParseFailure(outcome))

(***************************************************************************)
(* C5: for a "0x"-prefixed result of a 2xx response, estimate_gas removes   *)
(* one "0x" and returns the base-16 value of the rest; a rest that still   *)
(* begins with "0x" is not accepted.                                       *)
(***************************************************************************)
C5_OnePrefixStrippedThenBase16 ==
  (Done /\ entry = "estimate_gas" /\ Is2xx(status) /\ Decoded /\ IsSome(Envelope.result)
        /\ StartsWith(Envelope.result.val, HexPrefix)) =>
    LET rest == StripPrefixOnce(Envelope.result.val)
    IN  /\ (IsHexadecimal(rest) /\ Len(rest) <= 7) => outcome = Ok(HexValue(rest))
        /\ StartsWith(rest, HexPrefix) => ~outcome.ok

(***************************************************************************)
(* C6 as stated: every call that has returned has issued exactly one POST. *)
(***************************************************************************)
C6_ExactlyOnePostOnEveryPath == Done => posts = 1

(***************************************************************************)
(* C6 as amended: a call never issues more than one POST; a call that has  *)
(* returned has issued exactly one when the HTTP client accepted the       *)
(* endpoint, and none when it rejected the endpoint, in which case the     *)
(* call failed with the client's error.                                    *)
(***************************************************************************)
C6_AtMostOnePostOneWhenEndpointAccepted ==
  /\ posts <= 1
  /\ pc \in {"send_await", "json_await"} => posts = 1
  /\ Done =>
       /\ rpc_url.accepted => posts = 1
       /\ ~rpc_url.accepted => (posts = 0 /\ outcome = Err(ReqwestError("builder")))

C6_Witness ==
  /\ Done
  /\ entry = "estimate_gas"
  /\ posts = 1
  /\ IsParseFailure(outcome)

(***************************************************************************)
(* C7: the request of estimate_gas has method "eth_estimateGas" and one    *)
(* parameter, an object with exactly the fields from, to, value and data;  *)
(* a transaction differing only in nonce, gas_price, gas_limit, v, r or s  *)
(* gives the same request.                                                 *)
(***************************************************************************)
C7_OnlyCallShapeFieldsSent ==
  (entry = "estimate_gas") =>
    /\ request.method = "eth_estimateGas"
    /\ Len(request.params) = 1
    /\ request.params[1].json = "object"
    /\ DOMAIN request.params[1].fields = {"from", "to", "value", "data"}
    /\ \A t \in SameCallShape(tx) :
         JsonRpcRequest("eth_estimateGas", << EstimateGasParams(t) >>) = request

C7_Witness ==
  /\ pc = "send_await"
  /\ entry = "estimate_gas"
  /\ tx.nonce = 123
  /\ tx.data = << 10 >>
  /\ DOMAIN request.params[1].fields = {"from", "to", "value", "data"}

(***************************************************************************)
(* C8: the data field sent is "0x" followed by two lowercase hex           *)
(* characters per byte of tx.data, in order; empty data gives "0x".        *)
(***************************************************************************)
C8_DataIsPrefixedLowercaseHex ==
  (entry = "estimate_gas") =>
    LET d == request.params[1].fields.data.chars
    IN  /\ Len(d) = 2 + 2 * Len(tx.data)
        /\ d[1] = "0" /\ d[2] = "x"
        /\ \A i \in 1..Len(tx.data) :
             /\ LowerHexValue(d[2 * i + 1]) \in 0..15
             /\ LowerHexValue(d[2 * i + 2]) \in 0..15
             /\ 16 * LowerHexValue(d[2 * i + 1]) + LowerHexValue(d[2 * i + 2]) = tx.data[i]
        /\ tx.data = <<>> => d = << "0", "x" >>

C8_Witness ==
  /\ entry = "estimate_gas"
  /\ pc = "send_await"
  /\ tx.data = << 10, 255 >>
  /\ request.params[1].fields.data.chars = << "0", "x", "0", "a", "f", "f" >>

(***************************************************************************)
(* C9: the envelope posted for send_rpc(endpoint, method, params) has      *)
(* jsonrpc "2.0", the given method, the given params in their order, and   *)
(* id 1.                                                                   *)
(***************************************************************************)
C9_EnvelopeOfTheCall ==
  (pc # "idle") =>
    /\ request.jsonrpc = "2.0"
    /\ request.id = 1
    /\ request.method = args.method
    /\ Len(request.params) = Len(args.params)
    /\ \A i \in 1..Len(args.params) : request.params[i] = args.params[i]

C9_Witness ==
  /\ pc = "send_await"
  /\ entry = "send_rpc"
  /\ args.method = "eth_chainId"
  /\ args.params = << JStr(<< "a" >>), JStr(<< "b" >>) >>
  /\ request.params = << JStr(<< "a" >>), JStr(<< "b" >>) >>

(***************************************************************************)
(* C10: an envelope with both a result and an error is resolved as the     *)
(* result alone: the call returns what it returns for the same body        *)
(* without the error.                                                      *)
(***************************************************************************)
C10_ResultPreferredOverError ==
  (Done /\ Decoded /\ IsSome(Envelope.result) /\ IsSome(Envelope.error)) =>
    /\ outcome = CallReturn(entry, Ok(Envelope.result.val))
    /\ entry = "send_rpc" => outcome.ok
    /\ \A e \in ErrorFields :
         DecodeErrorField(e).ok =>
           outcome = CallReturn(entry, SendRpcReturn([body EXCEPT !.error = e]))

C10_Witness ==
  /\ Done
  /\ entry = "estimate_gas"
  /\ body = [kind |-> "json", result |-> JStr(<< "0", "x", "5", "2", "0", "8" >>),
             error |-> JObj([code |-> -32000, message |-> InsufficientFunds])]
  /\ outcome = Ok(21000)

====
